---- MODULE Spec2Model ----
(***************************************************************************)
(* Model of openforbc_benchmark/cli/benchmark.py: the "run" command        *)
(* (run_benchmark), the CliBenchmarkRun constructor, CliBenchmarkRun.start *)
(* and the process runner _run_task / _run_task_or_err, together with the  *)
(* child process they launch and the file system they write to.            *)
(*                                                                         *)
(* Bytes and text are sequences of numbers (byte values, code points).     *)
(* An optional value (None or a value) is the empty or a one-element       *)
(* sequence.  A Task is named by <<ph, ti>>: ph = 0 is the setup phase,    *)
(* ph = i >= 1 the i-th entry of the preset selection, ti the position in  *)
(* the phase.                                                              *)
(***************************************************************************)
EXTENDS Integers, Sequences, FiniteSets, TLC

VARIABLES
    benchmark_run,  \* the BenchmarkRun: its setup tasks and, per selected preset, its tasks
    dirs,           \* directories of the file system (paths)
    files,          \* regular files: path -> text lines
    log_dir,        \* self.log_dir (None before construction)
    log_file,       \* the log file object _run_task holds open (None when closed)
    pc,             \* control position of the command
    ph,             \* phase being executed by start()
    ti,             \* task of the phase being executed
    proc,           \* the child process of the Task in flight (None when none)
    line,           \* the line readline returned, not yet logged
    ret,            \* the value _run_task returned
    runs,           \* history: one record per Task handed to _run_task
    spinner,        \* the live status sink: its text and what was written to it
    errs,           \* what was echoed on the error channel
    stats,          \* start()'s local stats mapping
    extracted,      \* history: the get_stats calls, with the content handed over
    exc,            \* the exception start() raised (None when none)
    result,         \* the mapping start() returned (None when none)
    out,            \* what was echoed on standard output
    exit_status,    \* the exit status of the command (None while running)
    invocation      \* commands run side by side: each one's place in __init__ and log directory

vars == <<benchmark_run, dirs, files, log_dir, log_file, pc, ph, ti, proc,
          line, ret, runs, spinner, errs, stats, extracted, exc, result,
          out, exit_status, invocation>>

(* ------------------------------ bounds -------------------------------- *)

\* Tasks of one run, the setup phase and the selected presets together.
MaxTasks == 3
\* Entries of the preset selection.
MaxPresets == 2
\* Lines the child processes of one run write, all Tasks together.
MaxOut == 2
\* Lines each of the commands run side by side appends to its logs.
MaxAppends == 2

(* ------------------------------ inputs -------------------------------- *)

None == <<>>

Some(v) == <<v>>

BenchmarkId == "bench1"

PresetNames == {"p1", "p2"}

\* Return codes of a child: success, failure, killed by a signal.
ExitCodes == {0, 1, -9}

\* What a child may write as one line: "\xc3\xa9\n" (e acute in UTF-8), "\xff\n"
\* (not UTF-8) and "ok" without a newline (a last fragment).
OutLines == {<<195, 169, 10>>, <<255, 10>>, <<111, 107>>}

Timestamps == {"20220101_000000"}

\* datetime.now() of commands run side by side: the same second or the next.
Seconds == {"20220101_000000", "20220101_000001"}

\* The commands run side by side.
Invocations == {1, 2}

(* ----------------------------- helpers -------------------------------- *)

Last(s) == s[Len(s)]

SeqsUpTo(S, n) == UNION {[1..k -> S] : k \in 0..n}

RECURSIVE SumLen(_)
SumLen(s) == IF s = <<>> THEN 0 ELSE Len(Head(s).out) + SumLen(Tail(s))

RECURSIVE SumTasks(_)
SumTasks(s) == IF s = <<>> THEN 0 ELSE Head(s).tasks + SumTasks(Tail(s))

RECURSIVE Concat(_)
Concat(ss) == IF ss = <<>> THEN <<>> ELSE Head(ss) \o Concat(Tail(ss))

IsPrefix(s, t) == Len(s) <= Len(t) /\ SubSeq(t, 1, Len(s)) = s

\* bytes.decode(): UTF-8, one- and two-byte sequences; anything else is an error.
RECURSIVE decode(_)
decode(b) ==
    IF b = <<>> THEN [ok |-> TRUE, text |-> <<>>]
    ELSE IF b[1] < 128
    THEN LET r == decode(Tail(b))
         IN  [ok |-> r.ok, text |-> <<b[1]>> \o r.text]
    ELSE IF b[1] >= 194 /\ b[1] <= 223 /\ Len(b) >= 2 /\ b[2] >= 128 /\ b[2] <= 191
    THEN LET r == decode(Tail(Tail(b)))
         IN  [ok |-> r.ok, text |-> <<(b[1] - 192) * 64 + (b[2] - 128)>> \o r.text]
    ELSE [ok |-> FALSE, text |-> <<>>]

\* strip_newline as it would be with line[:-1], whatever the line ends with.
strip_newline_always(b) == SubSeq(b, 1, Len(b) - 1)

\* line[:-1] if line.endswith(b"\n") else line
strip_newline(b) ==
    IF b # <<>> /\ Last(b) = 10 THEN SubSeq(b, 1, Len(b) - 1) ELSE b

\* The tasks of phase p: benchmark_run.setup() for p = 0, the tasks
\* benchmark_run.run() yields with the p-th selected preset otherwise.
PresetOf(p) == benchmark_run.run[p].preset

NTasks(p) == IF p = 0 THEN benchmark_run.setup ELSE benchmark_run.run[p].tasks

\* join(task.args): "s<k>" for a setup task, "a<k>" / "b<k>" for a task of p1 / p2.
task_args(p, k) ==
    <<IF p = 0 THEN 115 ELSE IF PresetOf(p) = "p1" THEN 97 ELSE 98, 48 + k>>

\* f"$ {join(task.args)}\n"
echo_line(p, k) == <<36, 32>> \o task_args(p, k) \o <<10>>

\* "setup" and f"run_{preset.name}"
phase_identifier(p) == IF p = 0 THEN <<"setup">> ELSE <<"run_", PresetOf(p)>>

\* join(dir, f"{identifier}.log")
join_log(dir, identifier) == [dir |-> dir, name |-> identifier \o <<".log">>]

\* get_log_path as it would be with the directory derived anew at each call, from
\* the time of the call.
get_log_path_now(identifier) ==
    join_log(IF Len(runs) <= 1 THEN log_dir[1] ELSE <<"logs", BenchmarkId, "20220101_000001">>,
             identifier)

\* join(self.log_dir, f"{identifier}.log")
get_log_path(identifier) == join_log(log_dir[1], identifier)

LogsDir == <<"logs">>

\* join(getcwd(), "logs", benchmark.get_id())
BenchmarkLogDir == <<"logs", BenchmarkId>>

\* join_timestamp as it would be with strftime("%Y%m%d_%H%M"), the seconds left out.
join_minutes(now) == Append(BenchmarkLogDir, "20220101_0000")

\* join(get_benchmark_log_dir(benchmark), now.strftime("%Y%m%d_%H%M%S"))
join_timestamp(now) == Append(BenchmarkLogDir, now)

\* The error message start() hands to _run_task_or_err for the Task.
err_message(p, k) ==
    [benchmark |-> BenchmarkId, phase |-> phase_identifier(p), command |-> task_args(p, k)]

\* The benchmark model's stat extractor applied to a log's content.
get_stats(content) == [stats_of |-> content]

BenchmarkRunExceptions == {"BenchmarkTaskError", "BenchmarkTaskFailed"}

Raise(type, task, code, cause) ==
    Some([type |-> type, task |-> task, code |-> code, cause |-> cause])

(* ------------------------------- Init --------------------------------- *)

InitialDirs ==
    {{}, {LogsDir}, {LogsDir, BenchmarkLogDir}}
    \cup {{LogsDir, BenchmarkLogDir, Append(BenchmarkLogDir, t)} : t \in Timestamps}

\* What benchmark.run(presets) may be: any number of setup tasks and, in the order
\* selected, each selected preset with its tasks (a preset selected twice has the
\* same tasks both times).  The two preset names are interchangeable: the first
\* one selected is taken to be p1.
BenchmarkRuns ==
    {r \in [setup : 0..MaxTasks,
            run : SeqsUpTo([preset : PresetNames, tasks : 0..MaxTasks], MaxPresets)] :
       /\ r.setup + SumTasks(r.run) <= MaxTasks
       /\ r.run # <<>> => r.run[1].preset = "p1"
       /\ \A i, j \in DOMAIN r.run :
             r.run[i].preset = r.run[j].preset => r.run[i].tasks = r.run[j].tasks}

Init ==
    /\ benchmark_run \in BenchmarkRuns
    /\ dirs \in InitialDirs
    /\ files = <<>>
    /\ log_dir = None
    /\ log_file = None
    /\ pc = "cli"
    /\ ph = 0
    /\ ti = 1
    /\ proc = None
    /\ line = None
    /\ ret = None
    /\ runs = <<>>
    /\ spinner = [text |-> None, written |-> <<>>]
    /\ errs = <<>>
    /\ stats = <<>>
    /\ extracted = <<>>
    /\ exc = None
    /\ result = None
    /\ out = <<>>
    /\ exit_status = None
    /\ invocation = <<>>

config == <<benchmark_run, invocation>>
fsvars == <<dirs, files, log_dir, log_file>>
taskvars == <<proc, line, ret>>
loopvars == <<ph, ti>>
endvars == <<stats, extracted, exc, result, out, exit_status>>

(* --------------------- run_benchmark, __init__ ------------------------ *)

\* get_benchmark_log_dir_missing as it would be with the log root made on demand
\* (makedirs) instead of the error.
get_benchmark_log_dir_makedirs ==
    /\ pc = "cli"
    /\ LogsDir \notin dirs
    /\ dirs' = dirs \cup {LogsDir}
    /\ UNCHANGED <<config, files, log_dir, log_file, pc, taskvars, loopvars, runs,
                   spinner, errs, endvars>>

\* get_benchmark_log_dir without its "logs" directory: echoes the error and
\* raises Exit(1), which ends the command.
get_benchmark_log_dir_missing ==
    /\ pc = "cli"
    /\ LogsDir \notin dirs
    /\ errs' = Append(errs, [error |-> "Log directory \"logs\" not found"])
    /\ exit_status' = Some(1)
    /\ pc' = "exited"
    /\ UNCHANGED <<config, fsvars, taskvars, loopvars, runs, spinner, stats,
                   extracted, exc, result, out>>

\* CliBenchmarkRun.__init__ with the "logs" directory present: the benchmark's
\* directory is made when missing, then the invocation's; os.mkdir raises
\* FileExistsError when the invocation's directory is there already.
CliBenchmarkRun_init ==
    /\ pc = "cli"
    /\ LogsDir \in dirs
    /\ \E now \in Timestamps :
         LET d == join_timestamp(now)
             withParent == dirs \cup {BenchmarkLogDir}
         IN  IF d \in withParent
             THEN /\ dirs' = withParent
                  /\ exc' = Raise("FileExistsError", <<0, 0>>, 0, "mkdir")
                  /\ pc' = "crashed"
                  /\ UNCHANGED log_dir
             ELSE /\ dirs' = withParent \cup {d}
                  /\ log_dir' = Some(d)
                  /\ pc' = "start"
                  /\ UNCHANGED exc
    /\ UNCHANGED <<config, files, log_file, taskvars, loopvars, runs, spinner, errs,
                   stats, extracted, result, out, exit_status>>

(* ------------------------- CliBenchmarkRun.start ---------------------- *)

SpinnerWrite(what) == [spinner EXCEPT !.written = Append(@, what)]

\* The start of one loop iteration: the status text is set and _run_task_or_err
\* calls _run_task, which echoes the command line to the spinner.
begin_task ==
    /\ spinner' = [text |-> Some([phase |-> phase_identifier(ph), command |-> task_args(ph, ti)]),
                   written |-> Append(spinner.written, [echo |-> task_args(ph, ti)])]
    /\ runs' = Append(runs, [task |-> <<ph, ti>>, args |-> task_args(ph, ti),
                             log_path |-> get_log_path(phase_identifier(ph)),
                             spawned |-> FALSE, out |-> <<>>, logged |-> <<>>,
                             ret |-> None])
    /\ pc' = "popen"

start ==
    /\ pc = "start"
    /\ spinner' = SpinnerWrite([running |-> <<"setup">>])
    /\ ph' = 0
    /\ ti' = 1
    /\ pc' = "for_setup"
    /\ UNCHANGED <<config, fsvars, taskvars, runs, errs, endvars>>

\* for task in self.benchmark_run.setup(): ...; stats = {}
for_setup ==
    /\ pc = "for_setup"
    /\ IF ti <= NTasks(0)
       THEN /\ begin_task
            /\ UNCHANGED <<stats, loopvars>>
       ELSE /\ stats' = <<>>
            /\ ph' = 1
            /\ pc' = "for_preset"
            /\ UNCHANGED <<spinner, runs, ti>>
    /\ UNCHANGED <<config, fsvars, taskvars, errs, extracted, exc, result, out,
                   exit_status>>

\* for preset, tasks in self.benchmark_run.run(): ...; return stats
for_preset ==
    /\ pc = "for_preset"
    /\ IF ph <= Len(benchmark_run.run)
       THEN /\ spinner' = SpinnerWrite([running |-> <<"preset", PresetOf(ph)>>])
            /\ ti' = 1
            /\ pc' = "for_task"
            /\ UNCHANGED result
       ELSE /\ result' = Some(stats)
            /\ pc' = "returned"
            /\ UNCHANGED <<spinner, ti>>
    /\ UNCHANGED <<config, fsvars, taskvars, ph, runs, errs, stats, extracted, exc,
                   out, exit_status>>

\* for_task as it would be with the stats extraction taken out of the loop over
\* the presets: the next preset follows the last Task at once.
for_task_defers_stats ==
    /\ pc = "for_task"
    /\ IF ti <= NTasks(ph)
       THEN /\ begin_task
            /\ UNCHANGED loopvars
       ELSE /\ ph' = ph + 1
            /\ pc' = "for_preset"
            /\ UNCHANGED <<spinner, runs, ti>>
    /\ UNCHANGED <<config, fsvars, taskvars, errs, endvars>>

\* for task in tasks: ...
for_task ==
    /\ pc = "for_task"
    /\ IF ti <= NTasks(ph)
       THEN begin_task
       ELSE /\ pc' = "get_stats"
            /\ UNCHANGED <<spinner, runs>>
    /\ UNCHANGED <<config, fsvars, taskvars, loopvars, errs, endvars>>

\* with open(self._get_log_path(f"run_{preset.name}"), "r") as output:
\*     stats[preset.name] = self.benchmark_run.get_stats(output)
\* open raises FileNotFoundError when the log was never created.
extract_stats ==
    /\ pc = "get_stats"
    /\ LET path == get_log_path(phase_identifier(ph))
       IN  IF path \notin DOMAIN files
           THEN /\ exc' = Raise("FileNotFoundError", <<ph, 0>>, 0, "open")
                /\ pc' = "raised"
                /\ UNCHANGED <<stats, extracted, ph>>
           ELSE /\ stats' = [n \in DOMAIN stats \cup {PresetOf(ph)} |->
                               IF n = PresetOf(ph) THEN get_stats(files[path])
                               ELSE stats[n]]
                /\ extracted' = Append(extracted, [phase |-> ph, preset |-> PresetOf(ph),
                                                   path |-> path, content |-> files[path],
                                                   after |-> Len(runs)])
                /\ ph' = ph + 1
                /\ pc' = "for_preset"
                /\ UNCHANGED exc
    /\ UNCHANGED <<config, fsvars, taskvars, ti, runs, spinner, errs, result, out,
                   exit_status>>

\* extract_stats_raises as it would be with the extraction wrapped like a Task: the
\* error message printed and the error raised as BenchmarkTaskError.
extract_stats_raises_task_error ==
    /\ pc = "get_stats"
    /\ get_log_path(phase_identifier(ph)) \in DOMAIN files
    /\ extracted' = Append(extracted, [phase |-> ph, preset |-> PresetOf(ph),
                                       path |-> get_log_path(phase_identifier(ph)),
                                       content |-> files[get_log_path(phase_identifier(ph))],
                                       after |-> Len(runs)])
    /\ errs' = Append(errs, err_message(ph, 1))
    /\ exc' = Raise("BenchmarkTaskError", <<ph, 0>>, 0, "get_stats")
    /\ pc' = "raised"
    /\ UNCHANGED <<config, fsvars, taskvars, loopvars, runs, spinner, stats,
                   result, out, exit_status>>

\* get_stats raises on a log it cannot parse.
extract_stats_raises ==
    /\ pc = "get_stats"
    /\ get_log_path(phase_identifier(ph)) \in DOMAIN files
    /\ extracted' = Append(extracted, [phase |-> ph, preset |-> PresetOf(ph),
                                       path |-> get_log_path(phase_identifier(ph)),
                                       content |-> files[get_log_path(phase_identifier(ph))],
                                       after |-> Len(runs)])
    /\ exc' = Raise("StatsError", <<ph, 0>>, 0, "get_stats")
    /\ pc' = "raised"
    /\ UNCHANGED <<config, fsvars, taskvars, loopvars, runs, spinner, errs, stats,
                   result, out, exit_status>>

(* --------------------------- _run_task_or_err ------------------------- *)

SetLast(s, r) == [s EXCEPT ![Len(s)] = r]

\* except_Exception as it would be with the Task tried again after the error
\* message (no raise).
except_Exception_retries(e) ==
    /\ errs' = Append(errs, err_message(ph, ti))
    /\ exc' = exc
    /\ pc' = IF ph = 0 THEN "for_setup" ELSE "for_task"

\* except_Exception as it would be without the self._print(err_message, True).
except_Exception_silent(e) ==
    /\ errs' = errs
    /\ exc' = Raise("BenchmarkTaskError", <<ph, ti>>, 0, e)
    /\ pc' = "raised"

\* except Exception as e: whatever _run_task raised, the error message is printed
\* and BenchmarkTaskError ("did not start because of e") is raised.
except_Exception(e) ==
    /\ errs' = Append(errs, err_message(ph, ti))
    /\ exc' = Raise("BenchmarkTaskError", <<ph, ti>>, 0, e)
    /\ pc' = "raised"

\* task_failed as it would be with "if ret > 0".
task_failed_positive(r) == r > 0

\* if ret != 0
task_failed(r) == r # 0

\* next_task as it would be with the stats extraction placed in the task loop: it
\* follows the first Task of the preset.
next_task_extracts ==
    /\ ti' = ti + 1
    /\ pc' = IF ph = 0 THEN "for_setup" ELSE "get_stats"
    /\ UNCHANGED <<ph, errs, exc>>

\* Where start() goes on after _run_task_or_err returned: the next iteration.
next_task ==
    /\ ti' = ti + 1
    /\ pc' = IF ph = 0 THEN "for_setup" ELSE "for_task"
    /\ UNCHANGED <<ph, errs, exc>>

\* check_ret as it would be with the failure printed and not raised
\* (skip-and-continue).
check_ret_continues ==
    /\ pc = "check_ret"
    /\ IF task_failed(ret[1])
       THEN /\ errs' = Append(errs, err_message(ph, ti))
            /\ ti' = ti + 1
            /\ pc' = IF ph = 0 THEN "for_setup" ELSE "for_task"
            /\ UNCHANGED <<ph, exc>>
       ELSE next_task
    /\ ret' = None
    /\ UNCHANGED <<config, fsvars, proc, line, runs, spinner, stats, extracted,
                   result, out, exit_status>>

\* _run_task returned ret: a non-zero ret prints the error message and raises
\* BenchmarkTaskFailed; otherwise _run_task_or_err returns.
check_ret ==
    /\ pc = "check_ret"
    /\ IF task_failed(ret[1])
       THEN /\ errs' = Append(errs, err_message(ph, ti))
            /\ exc' = Raise("BenchmarkTaskFailed", <<ph, ti>>, ret[1], "")
            /\ pc' = "raised"
            /\ UNCHANGED loopvars
       ELSE next_task
    /\ ret' = None
    /\ UNCHANGED <<config, fsvars, proc, line, runs, spinner, stats, extracted,
                   result, out, exit_status>>

(* ------------------------------ _run_task ----------------------------- *)

\* proc = Popen(**task.into_popen_args(), stderr=STDOUT, stdout=PIPE)
popen ==
    /\ pc = "popen"
    /\ proc' = Some([pipe |-> <<>>, closed |-> FALSE, exited |-> FALSE])
    /\ runs' = SetLast(runs, [Last(runs) EXCEPT !.spawned = TRUE])
    /\ pc' = "open_log"
    /\ UNCHANGED <<config, fsvars, line, ret, loopvars, spinner, errs, endvars>>

\* popen_raises as it would be with the log opened and the command line written
\* before Popen, and the launch error written to the log.
popen_raises_logged ==
    /\ pc = "popen"
    /\ except_Exception("Popen")
    /\ LET path == get_log_path(phase_identifier(ph))
           old == IF path \in DOMAIN files THEN files[path] ELSE <<>>
       IN  files' = [f \in DOMAIN files \cup {path} |->
                       IF f = path THEN old \o <<echo_line(ph, ti), <<101, 114, 114, 10>>>>
                       ELSE files[f]]
    /\ UNCHANGED <<config, dirs, log_dir, log_file, taskvars, loopvars, runs, spinner,
                   stats, extracted, result, out, exit_status>>

\* Popen raises: the process could not be created.
popen_raises ==
    /\ pc = "popen"
    /\ except_Exception("Popen")
    /\ UNCHANGED <<config, fsvars, taskvars, loopvars, runs, spinner, stats,
                   extracted, result, out, exit_status>>

\* with open(log_path, "a") as log_file: log_file.write(f"$ {join(task.args)}\n")
open_log ==
    /\ pc = "open_log"
    /\ LET path == get_log_path(phase_identifier(ph))
           old == IF path \in DOMAIN files THEN files[path] ELSE <<>>
       IN  /\ files' = [f \in DOMAIN files \cup {path} |->
                          IF f = path THEN Append(old, echo_line(ph, ti)) ELSE files[f]]
           /\ log_file' = Some(path)
    /\ runs' = SetLast(runs, [Last(runs) EXCEPT !.logged = Append(@, echo_line(ph, ti))])
    /\ pc' = "readline"
    /\ UNCHANGED <<config, dirs, log_dir, taskvars, loopvars, spinner, errs, endvars>>

\* open(log_path, "a") raises (an I/O error), with the child already running:
\* _run_task is left, and with it the Popen object of the child.
open_log_raises ==
    /\ pc = "open_log"
    /\ except_Exception("open")
    /\ proc' = None
    /\ UNCHANGED <<config, fsvars, line, ret, loopvars, runs, spinner, stats,
                   extracted, result, out, exit_status>>

\* readline as it would be with a reader that returns complete lines only: a last
\* fragment without its newline is never returned.
readline_complete_lines ==
    /\ pc = "readline"
    /\ proc[1].pipe # <<>>
    /\ Last(Head(proc[1].pipe)) = 10
    /\ line' = Some(Head(proc[1].pipe))
    /\ proc' = Some([proc[1] EXCEPT !.pipe = Tail(@)])
    /\ spinner' = SpinnerWrite([line |-> strip_newline(Head(proc[1].pipe))])
    /\ pc' = "log_write"
    /\ UNCHANGED <<config, fsvars, ret, loopvars, runs, errs, endvars>>

\* proc.stdout.readline() returns a line (a last fragment only at end of stream) and
\* the line, its newline stripped, is written to the spinner.
readline ==
    /\ pc = "readline"
    /\ proc[1].pipe # <<>>
    /\ IF Last(Head(proc[1].pipe)) = 10 THEN TRUE ELSE proc[1].closed
    /\ line' = Some(Head(proc[1].pipe))
    /\ proc' = Some([proc[1] EXCEPT !.pipe = Tail(@)])
    /\ spinner' = SpinnerWrite([line |-> strip_newline(Head(proc[1].pipe))])
    /\ pc' = "log_write"
    /\ UNCHANGED <<config, fsvars, ret, loopvars, runs, errs, endvars>>

\* readline returns b"" at end of stream: the loop ends and the log is closed.
readline_eof ==
    /\ pc = "readline"
    /\ proc[1].pipe = <<>>
    /\ proc[1].closed
    /\ log_file' = None
    /\ pc' = "poll"
    /\ UNCHANGED <<config, dirs, files, log_dir, taskvars, loopvars, runs, spinner,
                   errs, endvars>>

\* log_file.write(line.decode()); decode raises UnicodeDecodeError on bytes that
\* are not UTF-8, which leaves the with block (the log is closed) and _run_task.
log_write ==
    /\ pc = "log_write"
    /\ LET d == decode(line[1])
           path == log_file[1]
       IN  IF d.ok
           THEN /\ files' = [files EXCEPT ![path] = Append(@, d.text)]
                /\ runs' = SetLast(runs, [Last(runs) EXCEPT !.logged = Append(@, d.text)])
                /\ pc' = "readline"
                /\ UNCHANGED <<log_file, proc, errs, exc>>
           ELSE /\ except_Exception("decode")
                /\ log_file' = None
                /\ proc' = None
                /\ UNCHANGED <<files, runs>>
    /\ line' = None
    /\ UNCHANGED <<config, dirs, log_dir, ret, loopvars, spinner, stats, extracted,
                   result, out, exit_status>>

\* while proc.poll() is None: sleep(0.05); return proc.returncode
\* The loop ends once the child has terminated; returncode is the code the child
\* exited with, which nothing reads before this.
poll ==
    /\ pc = "poll"
    /\ proc[1].exited
    /\ \E c \in ExitCodes :
         /\ ret' = Some(c)
         /\ runs' = SetLast(runs, [Last(runs) EXCEPT !.ret = Some(c)])
    /\ proc' = None
    /\ pc' = "check_ret"
    /\ UNCHANGED <<config, fsvars, line, loopvars, spinner, errs, endvars>>

(* --------------------------- the child process ------------------------ *)

\* proc is the Popen object _run_task holds: the child is followed from Popen until
\* _run_task returns or raises.

\* The child writes one line to its output; nothing follows a fragment.
child_write ==
    /\ proc # None
    /\ ~proc[1].closed
    /\ SumLen(runs) < MaxOut
    /\ IF Last(runs).out = <<>> THEN TRUE ELSE Last(Last(Last(runs).out)) = 10
    /\ \E l \in OutLines :
         /\ proc' = Some([proc[1] EXCEPT !.pipe = Append(@, l)])
         /\ runs' = SetLast(runs, [Last(runs) EXCEPT !.out = Append(@, l)])
    /\ UNCHANGED <<config, fsvars, pc, line, ret, loopvars, spinner, errs,
                   endvars>>

\* The output stream is closed (by the child, or by its exit).
child_close ==
    /\ proc # None
    /\ ~proc[1].closed
    /\ proc' = Some([proc[1] EXCEPT !.closed = TRUE])
    /\ UNCHANGED <<config, fsvars, pc, line, ret, loopvars, runs, spinner,
                   errs, endvars>>

\* The child terminates (with the code poll then finds in returncode).
child_exit ==
    /\ proc # None
    /\ ~proc[1].exited
    /\ proc' = Some([proc[1] EXCEPT !.exited = TRUE])
    /\ UNCHANGED <<config, fsvars, pc, line, ret, loopvars, runs, spinner,
                   errs, endvars>>

(* ------------------------ run_benchmark, the end ---------------------- *)

\* run_benchmark_except as it would be without "raise Exit(1)": the statistics
\* gathered so far are printed and the command ends with status 0.
run_benchmark_except_prints ==
    /\ pc = "raised"
    /\ exc[1].type \in BenchmarkRunExceptions
    /\ out' = out \o <<[exception |-> exc[1]], [error |-> "failed", benchmark |-> BenchmarkId],
                       [stats |-> stats]>>
    /\ exit_status' = Some(0)
    /\ pc' = "exited"
    /\ UNCHANGED <<config, fsvars, taskvars, loopvars, runs, spinner, errs, stats,
                   extracted, exc, result>>

\* except BenchmarkRunException as e: echo(e); echo(ERROR ...); raise Exit(1)
run_benchmark_except ==
    /\ pc = "raised"
    /\ exc[1].type \in BenchmarkRunExceptions
    /\ out' = out \o <<[exception |-> exc[1]], [error |-> "failed", benchmark |-> BenchmarkId]>>
    /\ exit_status' = Some(1)
    /\ pc' = "exited"
    /\ UNCHANGED <<config, fsvars, taskvars, loopvars, runs, spinner, errs, stats,
                   extracted, exc, result>>

\* Any other exception is not caught by run_benchmark.
run_benchmark_uncaught ==
    /\ pc = "raised"
    /\ exc[1].type \notin BenchmarkRunExceptions
    /\ pc' = "crashed"
    /\ UNCHANGED <<config, fsvars, taskvars, loopvars, runs, spinner, errs, endvars>>

\* print_stats(stats, not table), after start() returned
print_stats ==
    /\ pc = "returned"
    /\ out' = Append(out, [stats |-> result[1]])
    /\ exit_status' = Some(0)
    /\ pc' = "exited"
    /\ UNCHANGED <<config, fsvars, taskvars, loopvars, runs, spinner, errs, stats,
                   extracted, exc, result>>

(* ------------------------------- Spec --------------------------------- *)

Next ==
    \/ get_benchmark_log_dir_missing
    \/ CliBenchmarkRun_init
    \/ start
    \/ for_setup
    \/ for_preset
    \/ for_task
    \/ extract_stats
    \/ extract_stats_raises
    \/ popen
    \/ popen_raises
    \/ open_log
    \/ open_log_raises
    \/ readline
    \/ readline_eof
    \/ log_write
    \/ poll
    \/ check_ret
    \/ child_write
    \/ child_close
    \/ child_exit
    \/ run_benchmark_except
    \/ run_benchmark_uncaught
    \/ print_stats

Spec == Init /\ [][Next]_vars

\* The steps of the command itself: a sequential program takes its next step as
\* long as it has one (the blocking readline and the poll loop wait for the child).
RunnerStep ==
    \/ get_benchmark_log_dir_missing
    \/ CliBenchmarkRun_init
    \/ start
    \/ for_setup
    \/ for_preset
    \/ for_task
    \/ extract_stats
    \/ extract_stats_raises
    \/ popen
    \/ popen_raises
    \/ open_log
    \/ open_log_raises
    \/ readline
    \/ readline_eof
    \/ log_write
    \/ poll
    \/ check_ret
    \/ run_benchmark_except
    \/ run_benchmark_uncaught
    \/ print_stats

\* What has to go on: the steps of the command and, for the child it launched, the
\* closing of its output and its exit (a child need not write).
Progress == RunnerStep \/ child_close \/ child_exit

\* The runs in which the command keeps taking its steps and every child launched
\* eventually closes its output and exits.
FairSpec == Spec /\ WF_vars(Progress)

(* ------------------- two commands run side by side -------------------- *)

\* Two "run" commands of the same benchmark on one file system: the steps of
\* CliBenchmarkRun.__init__ of the one interleave with those of the other, and each
\* command whose constructor returned appends to the logs of its own log_dir, as
\* _run_task does.  invocation[a] holds, for command a: its place in __init__ (pc),
\* its datetime.now(), its self.log_dir, the exception that ended it, the number of
\* lines it appended and the files it wrote to.

runvars == <<log_dir, log_file, pc, ph, ti, proc, line, ret, runs, spinner, errs,
             stats, extracted, exc, result, out, exit_status>>

InitInvocations ==
    /\ benchmark_run = [setup |-> 1, run |-> <<[preset |-> "p1", tasks |-> 1]>>]
    /\ dirs \in {{}, {LogsDir}, {LogsDir, BenchmarkLogDir}}
    /\ files = <<>>
    /\ invocation = [a \in Invocations |->
                       [pc |-> "init", now |-> None, log_dir |-> None, exc |-> None,
                        appended |-> 0, wrote |-> {}]]
    /\ log_dir = None
    /\ log_file = None
    /\ pc = "cli"
    /\ ph = 0
    /\ ti = 1
    /\ proc = None
    /\ line = None
    /\ ret = None
    /\ runs = <<>>
    /\ spinner = [text |-> None, written |-> <<>>]
    /\ errs = <<>>
    /\ stats = <<>>
    /\ extracted = <<>>
    /\ exc = None
    /\ result = None
    /\ out = <<>>
    /\ exit_status = None

\* self.log_dir = join(get_benchmark_log_dir(...), datetime.now().strftime(...)):
\* Exit(1) without the "logs" directory, the path with the timestamp otherwise.
init_log_dir(a) ==
    /\ invocation[a].pc = "init"
    /\ IF LogsDir \notin dirs
       THEN invocation' = [invocation EXCEPT ![a].pc = "failed", ![a].exc = Some("Exit")]
       ELSE \E now \in Seconds :
               invocation' = [invocation EXCEPT ![a].pc = "exists",
                                                ![a].now = Some(now),
                                                ![a].log_dir = Some(join_timestamp(now))]
    /\ UNCHANGED <<benchmark_run, dirs, files, runvars>>

\* parent = dirname(self.log_dir); if not exists(parent):
init_exists(a) ==
    /\ invocation[a].pc = "exists"
    /\ invocation' = [invocation EXCEPT
                        ![a].pc = IF BenchmarkLogDir \in dirs THEN "mkdir" ELSE "mkdir_parent"]
    /\ UNCHANGED <<benchmark_run, dirs, files, runvars>>

\* mkdir(parent): FileExistsError when the directory has been made since the test.
init_mkdir_parent(a) ==
    /\ invocation[a].pc = "mkdir_parent"
    /\ IF BenchmarkLogDir \in dirs
       THEN /\ invocation' = [invocation EXCEPT ![a].pc = "failed",
                                                ![a].exc = Some("FileExistsError")]
            /\ UNCHANGED dirs
       ELSE /\ dirs' = dirs \cup {BenchmarkLogDir}
            /\ invocation' = [invocation EXCEPT ![a].pc = "mkdir"]
    /\ UNCHANGED <<benchmark_run, files, runvars>>

\* init_mkdir as it would be with makedirs(self.log_dir, exist_ok=True).
init_makedirs_exist_ok(a) ==
    /\ invocation[a].pc = "mkdir"
    /\ dirs' = dirs \cup {invocation[a].log_dir[1]}
    /\ invocation' = [invocation EXCEPT ![a].pc = "constructed"]
    /\ UNCHANGED <<benchmark_run, files, runvars>>

\* mkdir(self.log_dir): FileExistsError when the directory is there; __init__
\* returns otherwise.
init_mkdir(a) ==
    /\ invocation[a].pc = "mkdir"
    /\ IF invocation[a].log_dir[1] \in dirs
       THEN /\ invocation' = [invocation EXCEPT ![a].pc = "failed",
                                                ![a].exc = Some("FileExistsError")]
            /\ UNCHANGED dirs
       ELSE /\ dirs' = dirs \cup {invocation[a].log_dir[1]}
            /\ invocation' = [invocation EXCEPT ![a].pc = "constructed"]
    /\ UNCHANGED <<benchmark_run, files, runvars>>

\* _run_task of a command whose constructor returned: open(log_path, "a") with the
\* path start() derived from self.log_dir, and a line written.
run_task_append(a) ==
    /\ invocation[a].pc = "constructed"
    /\ invocation[a].appended < MaxAppends
    /\ \E p \in 0..Len(benchmark_run.run) :
         LET path == join_log(invocation[a].log_dir[1], phase_identifier(p))
             old == IF path \in DOMAIN files THEN files[path] ELSE <<>>
         IN  /\ files' = [f \in DOMAIN files \cup {path} |->
                            IF f = path THEN Append(old, echo_line(p, 1)) ELSE files[f]]
             /\ invocation' = [invocation EXCEPT ![a].appended = @ + 1,
                                                 ![a].wrote = @ \cup {path}]
    /\ UNCHANGED <<benchmark_run, dirs, runvars>>

NextInvocations ==
    \E a \in Invocations :
       \/ init_log_dir(a)
       \/ init_exists(a)
       \/ init_mkdir_parent(a)
       \/ init_mkdir(a)
       \/ run_task_append(a)

SpecInvocations == InitInvocations /\ [][NextInvocations]_vars

(* ---------------------- what the claims speak of ---------------------- *)

\* Task s comes before Task t in the order start() runs them.
TaskBefore(s, t) == s[1] < t[1] \/ (s[1] = t[1] /\ s[2] < t[2])

\* Popen has been called for the i-th Task handed to _run_task.
PopenCalled(i) == ~(i = Len(runs) /\ pc = "popen")

\* The i-th Task's process could not be created.
SpawnFailed(i) == PopenCalled(i) /\ ~runs[i].spawned

\* The i-th Task's process exited with a non-zero code (as _run_task returned it).
ExitedNonZero(i) == runs[i].ret # None /\ runs[i].ret # Some(0)

\* Some Task failed: its process could not be created or exited non-zero.
SomeTaskFailed == \E i \in DOMAIN runs : SpawnFailed(i) \/ ExitedNonZero(i)

\* start() raised a run exception of the given type.
Raised(type) == exc # None /\ exc[1].type = type

\* The indices in runs of the Tasks run for Task <<p, k>>.
RunsOf(p, k) == {i \in DOMAIN runs : runs[i].task = <<p, k>>}

\* Statistics were printed.
StatsPrinted == \E i \in DOMAIN out : "stats" \in DOMAIN out[i]

\* The text of the lines a process wrote, up to the first that is not UTF-8.
RECURSIVE TextLines(_)
TextLines(ls) ==
    IF ls = <<>> THEN <<>>
    ELSE IF decode(Head(ls)).ok THEN <<decode(Head(ls)).text>> \o TextLines(Tail(ls))
    ELSE <<>>

\* The content of the log of phase p (empty when the file is not there).
LogOf(p) ==
    IF get_log_path(phase_identifier(p)) \in DOMAIN files
    THEN files[get_log_path(phase_identifier(p))] ELSE <<>>

\* What the Tasks of phase p have to leave in the phase's log: per Task run, in
\* declaration order, its echoed command line and the lines its process wrote.
RECURSIVE PhaseOutput(_, _)
PhaseOutput(p, k) ==
    IF k = 0 THEN <<>>
    ELSE PhaseOutput(p, k - 1)
         \o (IF RunsOf(p, k) = {} THEN <<>>
             ELSE LET i == CHOOSE i \in RunsOf(p, k) : TRUE
                  IN  <<echo_line(p, k)>> \o TextLines(runs[i].out))

\* start() has executed phase p: all its Tasks returned and the loop went on.
PhaseExecuted(p) ==
    /\ log_dir # None
    /\ pc \in {"for_setup", "for_preset", "for_task", "get_stats", "popen", "open_log",
               "readline", "log_write", "poll", "check_ret", "returned", "raised",
               "exited", "crashed"}
    /\ \/ ph > p
       \/ ph = p /\ p >= 1 /\ pc = "get_stats"
       \/ ph = p /\ p >= 1 /\ exc # None /\ exc[1].type \in {"FileNotFoundError", "StatsError"}

(* ------------------------------- claims ------------------------------- *)

\* C1: fail-fast sequencing. The Tasks handed to _run_task follow the order of the
\* run with none repeated (no retry); every Task that is followed by another one was
\* launched and exited with code 0, so that no Task is ever launched after one that
\* failed; and the run exception start() raises for a failed Task references the
\* last Task handed over, the failing one.
C1_FailFast ==
    /\ \A i \in DOMAIN runs : i < Len(runs) =>
          /\ TaskBefore(runs[i].task, runs[i + 1].task)
          /\ runs[i].spawned
          /\ runs[i].ret = Some(0)
    /\ \A i \in DOMAIN runs : (SpawnFailed(i) \/ ExitedNonZero(i)) =>
          /\ i = Len(runs)
          /\ pc \in {"check_ret", "raised", "exited"}
          /\ pc # "check_ret" => exc # None /\ exc[1].task = runs[i].task
    /\ (exc # None /\ exc[1].type \in BenchmarkRunExceptions) =>
          runs # <<>> /\ exc[1].task = Last(runs).task

\* C1 witness: setup = [A, B], B exited non-zero, a preset with a Task was selected
\* and never run, and the command is over.
C1_Witness ==
    /\ pc = "exited"
    /\ Raised("BenchmarkTaskFailed")
    /\ exc[1].task = <<0, 2>>
    /\ Len(runs) = 2
    /\ benchmark_run.run # <<>>
    /\ NTasks(1) >= 1

\* C2: stats are extracted for a preset's phase only after every Task of the phase
\* has been launched and has exited with code 0 (its exit code returned by
\* _run_task), and only an extraction puts an entry into the stats mapping.
C2_StatsAfterSuccess ==
    /\ \A e \in DOMAIN extracted :
          \A k \in 1..NTasks(extracted[e].phase) :
             \E i \in RunsOf(extracted[e].phase, k) :
                runs[i].spawned /\ runs[i].ret = Some(0)
    /\ \A n \in DOMAIN stats : \E e \in DOMAIN extracted : extracted[e].preset = n
    /\ pc = "get_stats" =>
          \A k \in 1..NTasks(ph) :
             \E i \in RunsOf(ph, k) : runs[i].spawned /\ runs[i].ret = Some(0)

\* C2 witness: stats were extracted for a preset with two Tasks.
C2_Witness ==
    \E e \in DOMAIN extracted :
       NTasks(extracted[e].phase) = 2 /\ extracted[e].preset \in DOMAIN stats

\* C3 (as claimed): when start() is over, every Task of the setup phase and of
\* every selected preset has exited with code 0 and the stat extractor did not
\* raise, start() has returned a mapping whose keys are the selected preset names,
\* each with what the extractor returns for the preset's log.
C3_AggregationComplete ==
    (/\ pc \in {"returned", "raised", "exited", "crashed"}
     /\ log_dir # None
     /\ \A p \in 0..Len(benchmark_run.run) : \A k \in 1..NTasks(p) :
           \E i \in RunsOf(p, k) : runs[i].ret = Some(0)
     /\ ~Raised("StatsError"))
    => /\ result # None
       /\ DOMAIN result[1] = {PresetOf(p) : p \in DOMAIN benchmark_run.run}
       /\ \A p \in DOMAIN benchmark_run.run :
             result[1][PresetOf(p)] = get_stats(LogOf(p))

C5_SpawnErrorMeansNoProcess ==
    Raised("BenchmarkTaskError") => ~Last(runs).spawned

\* C6 (as claimed): the log of every phase begun is at every point a prefix of the
\* concatenation, in declaration order, of its Tasks' echoed command lines each
\* followed by the lines the Task's process wrote; and a Task that exited 0 left
\* its echoed command line and all its output.
C6_PhaseLogComposition ==
    log_dir # None =>
       /\ \A p \in 0..Len(benchmark_run.run) : p <= ph =>
             IsPrefix(LogOf(p), PhaseOutput(p, NTasks(p)))
       /\ \A i \in DOMAIN runs : runs[i].ret = Some(0) =>
             /\ Len(TextLines(runs[i].out)) = Len(runs[i].out)
             /\ runs[i].logged
                  = <<echo_line(runs[i].task[1], runs[i].task[2])>> \o TextLines(runs[i].out)

\* The part of C6 that holds whatever the selection: the log files only grow, each
\* step leaves every file there with its content as a prefix of the new content.
LogAppendOnly ==
    [][\A f \in DOMAIN files : f \in DOMAIN files' /\ IsPrefix(files[f], files'[f])]_vars

\* C7: a Task whose process cannot be created makes start() raise the spawn
\* failure (BenchmarkTaskError for that Task, with Popen's error as the cause) and
\* adds nothing beyond its echoed command line to the phase's log: the log of each
\* phase holds exactly what the Tasks run on it logged, and such a Task logged no
\* output line (its process wrote none).
C7_SpawnFailureLogsNothing ==
    /\ \A i \in DOMAIN runs : SpawnFailed(i) =>
          /\ exc = Raise("BenchmarkTaskError", runs[i].task, 0, "Popen")
          /\ runs[i].out = <<>>
          /\ IsPrefix(runs[i].logged, <<echo_line(runs[i].task[1], runs[i].task[2])>>)
    /\ log_dir # None =>
          \A p \in 0..Len(benchmark_run.run) :
             LogOf(p) = Concat([i \in DOMAIN runs |->
                                  IF phase_identifier(runs[i].task[1]) = phase_identifier(p)
                                  THEN runs[i].logged ELSE <<>>])

\* C7 witness: the second Task of a phase could not be created, after the first
\* one had written to the log.
C7_Witness ==
    /\ Len(runs) = 2
    /\ SpawnFailed(2)
    /\ runs[1].task[1] = runs[2].task[1]
    /\ Len(runs[1].logged) = 2
    /\ Raised("BenchmarkTaskError")

\* C8: no partial results. Once a Task has failed (spawn failure or non-zero exit),
\* start() returns no mapping (it raises, right after the check of the exit code),
\* no statistics are ever printed, and the command ends with status 1.
C8_NoPartialResults ==
    SomeTaskFailed =>
       /\ result = None
       /\ ~StatsPrinted
       /\ pc \in {"check_ret", "raised", "exited"}
       /\ pc # "check_ret" => exc # None /\ exc[1].type \in BenchmarkRunExceptions
       /\ pc = "exited" => exit_status = Some(1)
       /\ exit_status \in {None, Some(1)}

\* C8 witness: a Task failed after the stats of an earlier preset had been
\* extracted, and the command is over.
C8_Witness ==
    /\ pc = "exited"
    /\ SomeTaskFailed
    /\ stats # <<>>

\* C9: without the log root ("logs") the construction of the run fails at once:
\* the step taken from there ends the command with status 1 and creates no
\* directory and no file, launches no process and hands no Task to _run_task; and
\* wherever the log root is missing there is no directory, no file, no log
\* directory of the run and no Task was run.
C9_LogRootMissing ==
    /\ [](LogsDir \notin dirs =>
             /\ dirs = {}
             /\ files = <<>>
             /\ log_dir = None
             /\ runs = <<>>
             /\ proc = None
             /\ pc \in {"cli", "exited"})
    /\ [][(pc = "cli" /\ LogsDir \notin dirs) =>
             /\ pc' = "exited"
             /\ exit_status' = Some(1)
             /\ UNCHANGED <<dirs, files, log_dir, runs, proc>>]_vars

\* C9 witness: the command ended with status 1 and the log root is not there.
C9_Witness ==
    /\ pc = "exited"
    /\ exit_status = Some(1)
    /\ LogsDir \notin dirs
    /\ errs # <<>>

\* C10 (as claimed): once start() has executed a phase, whatever the number of its
\* Tasks, the phase's log file is in the invocation's directory.
C10_PhaseLogExists ==
    \A p \in 0..Len(benchmark_run.run) :
       PhaseExecuted(p) => get_log_path(phase_identifier(p)) \in DOMAIN files

\* C12: the log path derivation is idempotent. The paths start() derived at
\* different points of the run for the same phase identifier (one per Task, one for
\* the stats extraction) are the same path, <log_dir>/<identifier>.log with the
\* log_dir of the constructor; every file of the run is at such a path; and no step
\* changes log_dir once the constructor has set it.
C12_LogPathIdempotent ==
    /\ [](log_dir # None =>
            /\ \A i \in DOMAIN runs :
                  /\ runs[i].log_path.dir = log_dir[1]
                  /\ runs[i].log_path.name = phase_identifier(runs[i].task[1]) \o <<".log">>
            /\ \A i, j \in DOMAIN runs :
                  phase_identifier(runs[i].task[1]) = phase_identifier(runs[j].task[1])
                     => runs[i].log_path = runs[j].log_path
            /\ \A e \in DOMAIN extracted :
                  /\ extracted[e].path.dir = log_dir[1]
                  /\ \A i \in DOMAIN runs :
                        runs[i].task[1] = extracted[e].phase
                           => runs[i].log_path = extracted[e].path
            /\ \A f \in DOMAIN files : \E i \in DOMAIN runs : runs[i].log_path = f)
    /\ [][log_dir # None => log_dir' = log_dir]_vars

\* C12 witness: the path of one identifier was derived for three Tasks, at
\* different points of the run, and the third Task has written to the log.
C12_Witness ==
    /\ Len(runs) = 3
    /\ runs[1].task[1] = runs[3].task[1]
    /\ runs[1].log_path = runs[3].log_path
    /\ Len(runs[3].logged) >= 1
    /\ Cardinality(DOMAIN files) = 1

\* C13: phase ordering. Every Task of a preset was handed over after every setup
\* Task had returned code 0; the Tasks follow the order of the phases, setup first
\* and then the presets as selected; the stats extractions are those of the
\* selected presets in order; and the extraction of a preset comes after the return,
\* with code 0, of all the preset's Tasks and of everything before, and before any
\* Task of a later preset, none of which runs without it.
C13_PhaseOrdering ==
    /\ \A i \in DOMAIN runs : runs[i].task[1] >= 1 =>
          \A k \in 1..NTasks(0) :
             \E j \in 1..(i - 1) : runs[j].task = <<0, k>> /\ runs[j].ret = Some(0)
    /\ \A i, j \in DOMAIN runs : i < j => runs[i].task[1] <= runs[j].task[1]
    /\ \A e \in DOMAIN extracted :
          /\ extracted[e].phase = e
          /\ extracted[e].preset = PresetOf(e)
          /\ \A k \in 1..NTasks(e) :
                \E i \in 1..extracted[e].after : runs[i].task = <<e, k>>
          /\ \A i \in DOMAIN runs :
                IF i <= extracted[e].after
                THEN runs[i].task[1] <= e /\ runs[i].ret = Some(0)
                ELSE runs[i].task[1] > e
    /\ \A i \in DOMAIN runs : \A p \in 1..(runs[i].task[1] - 1) :
          p \in DOMAIN extracted /\ extracted[p].after < i

\* C13 witness: a setup Task and a Task of each of two selected presets have run,
\* and the stats of both presets were extracted.
C13_Witness ==
    /\ Len(runs) = 3
    /\ runs[1].task[1] = 0
    /\ runs[3].task[1] = 2
    /\ Len(extracted) = 2
    /\ extracted[1].after = 2
    /\ result # None

\* The Tasks whose process was launched and whose exit code was not observed: the
\* children of the run that may be alive.
Unobserved == {i \in DOMAIN runs : runs[i].spawned /\ runs[i].ret = None}

\* C14: one child at a time. At most one child of the run may be alive (launched,
\* its exit code not observed), and it is the child of the last Task handed to
\* _run_task, the one whose Popen object _run_task holds if it holds one; every
\* Task followed by another had the exit code of its process observed before; and
\* once _run_task has raised with its child not waited for, no further Task is
\* handed over.
C14_OneChildAtATime ==
    /\ Cardinality(Unobserved) <= 1
    /\ \A i \in Unobserved : i = Len(runs)
    /\ \A i \in DOMAIN runs : i < Len(runs) => runs[i].spawned /\ runs[i].ret # None
    /\ proc # None => Len(runs) \in Unobserved
    /\ (Unobserved # {} /\ proc = None) =>
          /\ Raised("BenchmarkTaskError")
          /\ exc[1].task = Last(runs).task
          /\ pc \in {"raised", "exited"}

\* C14 witness: after a Task whose exit code was observed, _run_task raised with
\* the child of the second Task launched and not waited for, and the command ended.
C14_Witness ==
    /\ Len(runs) = 2
    /\ runs[1].ret # None
    /\ Unobserved = {2}
    /\ proc = None
    /\ pc = "exited"

\* Control is in _run_task, from Popen to the return of the exit code.
InRunTask == pc \in {"popen", "open_log", "readline", "log_write", "poll"}

\* start() is running, _run_task included.
StartRunning ==
    pc \in {"for_setup", "for_preset", "for_task", "get_stats", "popen", "open_log",
            "readline", "log_write", "poll", "check_ret"}

\* C15: completion of the process runner. _run_task returns an exit code only when
\* the child's output is at end of stream with every line read and the child has
\* terminated, and what it returned for is a Task whose whole output is in the log;
\* _run_task is left by the return of the exit code or by a raise only; and, the
\* child eventually closing its output and exiting, whichever comes first, start()
\* eventually returns or raises from wherever it is, inside _run_task or not.
C15_RunTaskCompletes ==
    /\ [][/\ (ret = None /\ ret' # None) =>
                /\ pc = "poll"
                /\ pc' = "check_ret"
                /\ proc # None
                /\ proc[1].closed
                /\ proc[1].pipe = <<>>
                /\ proc[1].exited
                /\ log_file = None
                /\ Len(Last(runs).logged) = 1 + Len(Last(runs).out)
                /\ Last(runs').ret = ret'
          /\ (InRunTask /\ ~InRunTask') => pc' \in {"check_ret", "raised"}]_vars
    /\ (StartRunning ~> pc \in {"returned", "raised"})

\* C15 witness: _run_task has returned the exit code of a child that wrote a line
\* and a last fragment, both read.
C15_Witness ==
    /\ pc = "check_ret"
    /\ ret # None
    /\ Len(Last(runs).out) = 2
    /\ Last(Last(Last(runs).out)) # 10
    /\ Len(Last(runs).logged) = 3

\* The Task messages on the error channel (the other message there is that of the
\* missing log root).
TaskMessages == SelectSeq(errs, LAMBDA m : "command" \in DOMAIN m)

\* _run_task_or_err has dealt with the i-th Task's outcome (the exit code returned
\* by _run_task is checked in a step of its own).
Handled(i) == ~(i = Len(runs) /\ pc = "check_ret")

RECURSIVE TakeLines(_)
TakeLines(w) ==
    IF w = <<>> THEN <<>>
    ELSE IF "echo" \in DOMAIN Head(w) THEN <<>>
    ELSE (IF "line" \in DOMAIN Head(w) THEN <<Head(w).line>> ELSE <<>>) \o TakeLines(Tail(w))

\* The output lines forwarded to the spinner for the i-th Task handed to _run_task:
\* those that follow the i-th echoed command line.
RECURSIVE SinkLines(_, _)
SinkLines(w, i) ==
    IF w = <<>> THEN <<>>
    ELSE IF "echo" \in DOMAIN Head(w)
    THEN (IF i = 1 THEN TakeLines(Tail(w)) ELSE SinkLines(Tail(w), i - 1))
    ELSE SinkLines(Tail(w), i)

\* The output lines logged for the i-th Task: what it logged after its echoed
\* command line.
LoggedLines(i) == IF runs[i].logged = <<>> THEN <<>> ELSE Tail(runs[i].logged)

\* A line without its trailing newline, if it has one.
WithoutNewline(t) == IF t # <<>> /\ t[Len(t)] = 10 THEN SubSeq(t, 1, Len(t) - 1) ELSE t

\* C17: live sink consistency. For every Task, the lines forwarded to the spinner
\* are the lines its process wrote, in that order, each without its trailing newline
\* (a last fragment as it is); the lines appended to the log are, line for line, the
\* text of the forwarded lines with the newline; the spinner is ahead of the log by
\* at most one line, the one being logged or the one whose logging raised; and when
\* _run_task has returned, both hold every line, a last fragment being one of them.
C17_LiveSinkConsistency ==
    \A i \in DOMAIN runs :
       LET sink == SinkLines(spinner.written, i)
           logl == LoggedLines(i)
       IN  /\ Len(logl) <= Len(sink)
           /\ Len(sink) <= Len(logl) + 1
           /\ Len(sink) <= Len(runs[i].out)
           /\ \A k \in DOMAIN sink : sink[k] = WithoutNewline(runs[i].out[k])
           /\ \A k \in DOMAIN logl :
                 /\ decode(sink[k]).ok
                 /\ decode(sink[k]).text = WithoutNewline(logl[k])
                 /\ Len(logl[k]) - Len(decode(sink[k]).text)
                      = (IF Last(runs[i].out[k]) = 10 THEN 1 ELSE 0)
           /\ Len(sink) = Len(logl) + 1 =>
                 /\ i = Len(runs)
                 /\ IF pc = "log_write" THEN line = Some(runs[i].out[Len(sink)])
                    ELSE Raised("BenchmarkTaskError") /\ ~decode(runs[i].out[Len(sink)]).ok
           /\ runs[i].ret # None => Len(sink) = Len(runs[i].out) /\ Len(logl) = Len(sink)

\* C17 witness: a line was forwarded and logged, and the last fragment that follows
\* has been forwarded and is about to be logged: the spinner is one line ahead.
C17_Witness ==
    /\ pc = "log_write"
    /\ runs # <<>>
    /\ Len(SinkLines(spinner.written, Len(runs))) = 2
    /\ Len(LoggedLines(Len(runs))) = 1
    /\ Last(line[1]) # 10

\* start() ended with what the stats extraction of a preset raised: open() of the
\* preset's log or get_stats.
ExtractionRaised ==
    /\ exc # None
    /\ exc[1].cause \in {"open", "get_stats"}
    /\ exc[1].task[2] = 0

\* C18: what the stats extraction of a preset raises leaves start() as it is: it is
\* no run exception (neither BenchmarkTaskError nor BenchmarkTaskFailed), so that
\* run_benchmark does not catch it; no Task message is on the error channel; every
\* Task handed to _run_task belongs to the preset or to what came before it, each
\* with code 0 returned, and no process is running; start() returned no mapping and
\* nothing is printed.
C18_ExtractionErrorPropagates ==
    ExtractionRaised =>
       /\ exc[1].type \in {"FileNotFoundError", "StatsError"}
       /\ exc[1].type \notin BenchmarkRunExceptions
       /\ errs = <<>>
       /\ \A i \in DOMAIN runs : runs[i].task[1] <= exc[1].task[1] /\ runs[i].ret = Some(0)
       /\ proc = None
       /\ exc[1].task[1] = ph
       /\ exc[1].task[1] \in DOMAIN benchmark_run.run
       /\ PresetOf(ph) \notin DOMAIN stats \/ \E q \in 1..(ph - 1) : PresetOf(q) = PresetOf(ph)
       /\ result = None
       /\ out = <<>>
       /\ exit_status = None
       /\ pc \in {"raised", "crashed"}

\* C18 witness: get_stats raised on the log of the first of two selected presets,
\* whose Task had returned 0; the second preset has a Task, which never ran, and
\* the command is over.
C18_Witness ==
    /\ Raised("StatsError")
    /\ pc = "crashed"
    /\ exc[1].task[1] = 1
    /\ Len(benchmark_run.run) = 2
    /\ NTasks(1) >= 1
    /\ NTasks(2) >= 1

\* C20 (as claimed): phase log isolation. The content handed to get_stats for an
\* entry of the preset selection is exactly the echoed command lines and the output
\* of that entry's own Tasks, each run once, in declaration order.
C20_PhaseLogIsolation ==
    \A e \in DOMAIN extracted :
       extracted[e].content = PhaseOutput(extracted[e].phase, NTasks(extracted[e].phase))

\* The constructor of command a returned: the command owns its log_dir.
Constructed(a) == invocation[a].pc = "constructed"

\* The constructor of command a is over, returned or raised.
InitOver(a) == invocation[a].pc \in {"constructed", "failed"}

\* C11: invocation isolation. Two commands of the same benchmark whose
\* datetime.now() differ have different log directories, each the timestamp's
\* directory under logs/<benchmark id>; the log directory of a command is made by
\* no other command (its mkdir does not fail); once a constructor has returned, the benchmark's directory and the
\* command's log directory are there; and every file a command writes to is in its
\* own log directory and is written to by no other command.
C11_InvocationIsolation ==
    \A a, b \in DOMAIN invocation :
       (a # b /\ invocation[a].now # None /\ invocation[b].now # None
        /\ invocation[a].now # invocation[b].now) =>
          /\ invocation[a].log_dir # invocation[b].log_dir
          /\ invocation[a].log_dir = Some(Append(BenchmarkLogDir, invocation[a].now[1]))
          /\ invocation[a].log_dir[1] \in dirs => Constructed(a)
          /\ Constructed(a) => {LogsDir, BenchmarkLogDir, invocation[a].log_dir[1]} \subseteq dirs
          /\ \A f \in invocation[a].wrote :
                /\ f.dir = invocation[a].log_dir[1]
                /\ f.dir # invocation[b].log_dir[1]
                /\ f \in DOMAIN files
                /\ f \notin invocation[b].wrote

\* C11 witness: two commands started in different seconds have both been
\* constructed and have both written to a log of the same name, each in its own
\* log directory.
C11_Witness ==
    /\ DOMAIN invocation = Invocations
    /\ invocation[1].now # invocation[2].now
    /\ Constructed(1) /\ Constructed(2)
    /\ invocation[1].appended >= 1 /\ invocation[2].appended >= 1
    /\ \E f \in invocation[1].wrote : \E g \in invocation[2].wrote : f.name = g.name
    /\ Cardinality(DOMAIN files) >= 2

\* C19: exclusive log directory. Whatever the interleaving of the constructors, no
\* two commands whose constructor returned have the same log directory; of two
\* commands that took the same second and whose constructors are over, exactly one
\* was constructed; and a command whose constructor raised has written to no file.
C19_ExclusiveLogDir ==
    \A a, b \in DOMAIN invocation : a # b =>
       /\ (Constructed(a) /\ Constructed(b)) => invocation[a].log_dir # invocation[b].log_dir
       /\ (invocation[a].now # None /\ invocation[a].now = invocation[b].now
           /\ InitOver(a) /\ InitOver(b)) =>
             /\ Constructed(a) # Constructed(b)
             /\ ~Constructed(a) => invocation[a].exc = Some("FileExistsError")
       /\ ~Constructed(a) => invocation[a].wrote = {} /\ invocation[a].appended = 0
       /\ \A f \in DOMAIN files : \E c \in DOMAIN invocation :
             Constructed(c) /\ f.dir = invocation[c].log_dir[1]

\* C19 witness: two commands took the same second, both passed the test of the
\* benchmark's directory; one was constructed and has written, the other's mkdir of
\* the log directory raised.
C19_Witness ==
    /\ DOMAIN invocation = Invocations
    /\ invocation[1].now = invocation[2].now
    /\ invocation[1].now # None
    /\ Constructed(1)
    /\ invocation[1].appended >= 1
    /\ invocation[2].pc = "failed"
    /\ invocation[2].exc = Some("FileExistsError")
    /\ invocation[2].log_dir[1] \in dirs

====
